---- MODULE Spec2Model ----
(***************************************************************************)
(* A model of the wplace heatmap generator (src/main.go).                  *)
(*                                                                         *)
(* Strings are sequences of one-character strings, so that strings.Split,  *)
(* strings.HasPrefix, strings.Contains and strconv.Atoi are computed the   *)
(* way the Go code computes them.  Images are functions from pixel         *)
(* coordinates to premultiplied RGBA colours <<r, g, b, a>>.               *)
(***************************************************************************)
EXTENDS Integers, Sequences, FiniteSets, TLC

VARIABLES
    pc,               \* position in main
    config,           \* the Config record (main.go:24-33)
    versions,         \* the version list main iterates over
    region,           \* startAbsX, startAbsY, width, height and the tile range
    vi,               \* index of the version being processed (for _, v := range versions)
    tx, ty,           \* tile loop counters
    currentCombined,  \* the canvas of the version being built
    versionValid,
    prevCombined,     \* <<the previous canvas>>, or <<>>
    successCount,
    changes,          \* per-pixel change counter
    cacheFS,          \* the files under the cache directory, by path
    output,           \* <<the file written to config.OutputFile>>, or <<>>
    built,            \* history: the canvases that were built successfully, in order
    tileFailed,       \* history: a tile of the current version failed to resolve
    snap,             \* history: changes and prevCombined when the current iteration began
    rawLog,           \* history: the calls of downloadRawTile
    mergedLog,        \* history: the calls of downloadMergedTile
    heat              \* the argument and result of getHeatColor

vars == <<pc, config, versions, region, vi, tx, ty, currentCombined, versionValid,
          prevCombined, successCount, changes, cacheFS, output, built, tileFailed,
          snap, rawLog, mergedLog, heat>>

Nil == "nil"

(***************************************************************************)
(* Program constants.                                                      *)
(***************************************************************************)
TileSize == 1000
DefaultZoom == 11
DefaultTileX == 1818
DefaultTileY == 806
DefaultSize == 1000

(***************************************************************************)
(* Bounds of the model.                                                    *)
(***************************************************************************)
MaxTile == 1        \* tile indexes in region strings range over 0..MaxTile
MaxSize == 2        \* width and height fields of Fullsize-6 range over 0..MaxSize
MaxLayers == 3      \* layers, over all versions of the version list
MaxPixels == 2      \* canvases of at most this many pixels are built
MaxCount == 12      \* getHeatColor is explored for 0 <= val <= max <= MaxCount

(***************************************************************************)
(* strings and strconv                                                     *)
(***************************************************************************)
RECURSIVE SplitFrom(_, _, _, _, _)
SplitFrom(s, sep, i, cur, acc) ==
    IF i > Len(s) THEN Append(acc, cur)
    ELSE IF s[i] = sep THEN SplitFrom(s, sep, i + 1, <<>>, Append(acc, cur))
    ELSE SplitFrom(s, sep, i + 1, Append(cur, s[i]), acc)

\* strings.Split(s, sep) for a one-character separator
Split(s, sep) == SplitFrom(s, sep, 1, <<>>, <<>>)

\* strings.Contains(s, c) for a one-character c
Contains(s, c) == \E i \in 1..Len(s) : s[i] = c

\* strings.HasPrefix(s, c) for a one-character c
HasPrefix(s, c) == Len(s) > 0 /\ s[1] = c

Digits == <<"0", "1", "2", "3", "4", "5", "6", "7", "8", "9">>

IsDigit(c) == \E d \in 1..10 : Digits[d] = c

DigitVal(c) == (CHOOSE d \in 1..10 : Digits[d] = c) - 1

RECURSIVE Num(_)
Num(ds) == IF Len(ds) = 0 THEN 0
           ELSE 10 * Num(SubSeq(ds, 1, Len(ds) - 1)) + DigitVal(ds[Len(ds)])

\* strconv.Atoi: an optional sign, then one or more decimal digits; on a syntax
\* error the value is 0.  (Inputs stay far below the int range.)
Atoi(p) ==
    LET signed == Len(p) > 0 /\ p[1] \in {"+", "-"}
        body == IF signed THEN Tail(p) ELSE p
        ok == Len(body) > 0 /\ \A i \in 1..Len(body) : IsDigit(body[i])
    IN  IF ~ok THEN [val |-> 0, err |-> "syntax"]
        ELSE [val |-> IF signed /\ p[1] = "-" THEN 0 - Num(body) ELSE Num(body),
              err |-> Nil]

\* Go's integer division truncates toward zero
GoDiv(a, b) == IF a >= 0 THEN a \div b ELSE 0 - ((0 - a) \div b)

(***************************************************************************)
(* Coordinate translation                                                  *)
(***************************************************************************)
AtoiAll(parts) == [i \in 1..Len(parts) |-> Atoi(parts[i])]

FirstErr(rs) ==
    IF \E i \in 1..Len(rs) : rs[i].err # Nil
    THEN rs[CHOOSE i \in 1..Len(rs) :
              rs[i].err # Nil /\ \A j \in 1..(i - 1) : rs[j].err = Nil].err
    ELSE Nil

ZeroRect(err) == [startX |-> 0, startY |-> 0, width |-> 0, height |-> 0, err |-> err]

Min2(a, b) == IF a > b THEN b ELSE a
Max2(a, b) == IF a > b THEN a ELSE b

\* a mutant of parseFullsize: the Y corners are not put in order
parseFullsizeNoSwapY(fs) ==
    LET parts == Split(fs, "-")
        rs == AtoiAll(parts)
        vals == [i \in 1..Len(parts) |-> rs[i].val]
    IN  IF Len(parts) = 6 THEN
            IF FirstErr(rs) # Nil THEN ZeroRect(FirstErr(rs))
            ELSE [startX |-> vals[1] * TileSize + vals[3],
                  startY |-> vals[2] * TileSize + vals[4],
                  width |-> vals[5], height |-> vals[6], err |-> Nil]
        ELSE IF Len(parts) = 8 THEN
            IF FirstErr(rs) # Nil THEN ZeroRect(FirstErr(rs))
            ELSE LET x1 == vals[1] * TileSize + vals[3]
                     y1 == vals[2] * TileSize + vals[4]
                     x2 == vals[5] * TileSize + vals[7]
                     y2 == vals[6] * TileSize + vals[8]
                 IN  [startX |-> Min2(x1, x2), startY |-> y1,
                      width |-> Max2(x1, x2) - Min2(x1, x2),
                      height |-> y2 - y1, err |-> Nil]
        ELSE ZeroRect("invalid fullsize format")

parseFullsize(fs) ==
    LET parts == Split(fs, "-")
        rs == AtoiAll(parts)
        vals == [i \in 1..Len(parts) |-> rs[i].val]
    IN  IF Len(parts) = 6 THEN
            IF FirstErr(rs) # Nil THEN ZeroRect(FirstErr(rs))
            ELSE [startX |-> vals[1] * TileSize + vals[3],
                  startY |-> vals[2] * TileSize + vals[4],
                  width |-> vals[5], height |-> vals[6], err |-> Nil]
        ELSE IF Len(parts) = 8 THEN
            IF FirstErr(rs) # Nil THEN ZeroRect(FirstErr(rs))
            ELSE LET x1 == vals[1] * TileSize + vals[3]
                     y1 == vals[2] * TileSize + vals[4]
                     x2 == vals[5] * TileSize + vals[7]
                     y2 == vals[6] * TileSize + vals[8]
                 IN  [startX |-> Min2(x1, x2), startY |-> Min2(y1, y2),
                      width |-> Max2(x1, x2) - Min2(x1, x2),
                      height |-> Max2(y1, y2) - Min2(y1, y2), err |-> Nil]
        ELSE ZeroRect("invalid fullsize format")

ZeroRange(err) == [minTX |-> 0, minTY |-> 0, maxTX |-> 0, maxTY |-> 0, err |-> err]

parseTileRange(tr) ==
    LET parts == Split(tr, "_")
    IN  IF Len(parts) # 2 THEN ZeroRange("invalid tile range format")
        ELSE LET p1 == Split(parts[1], "-")
                 p2 == Split(parts[2], "-")
             IN  IF Len(p1) # 2 \/ Len(p2) # 2 THEN ZeroRange("invalid tile range points")
                 ELSE LET x1 == Atoi(p1[1]).val
                          y1 == Atoi(p1[2]).val
                          x2 == Atoi(p2[1]).val
                          y2 == Atoi(p2[2]).val
                      IN  [minTX |-> Min2(x1, x2), minTY |-> Min2(y1, y2),
                           maxTX |-> Max2(x1, x2), maxTY |-> Max2(y1, y2), err |-> Nil]

\* main, lines 298-329: the pixel rectangle of the selected encoding
selectRect(c) ==
    IF c.Fullsize # <<>> THEN parseFullsize(c.Fullsize)
    ELSE IF c.TileRange # <<>> THEN
        LET r == parseTileRange(c.TileRange)
        IN  IF r.err # Nil THEN ZeroRect(r.err)
            ELSE [startX |-> r.minTX * TileSize, startY |-> r.minTY * TileSize,
                  width |-> (r.maxTX - r.minTX + 1) * TileSize,
                  height |-> (r.maxTY - r.minTY + 1) * TileSize, err |-> Nil]
    ELSE IF c.SingleTile # <<>> THEN
        LET parts == Split(c.SingleTile, "-")
        IN  IF Len(parts) # 2 THEN ZeroRect("invalid single tile format")
            ELSE [startX |-> Atoi(parts[1]).val * TileSize,
                  startY |-> Atoi(parts[2]).val * TileSize,
                  width |-> TileSize, height |-> TileSize, err |-> Nil]
    ELSE [startX |-> DefaultTileX * TileSize, startY |-> DefaultTileY * TileSize,
          width |-> DefaultSize, height |-> DefaultSize, err |-> Nil]

\* main, lines 331-334: the inclusive tile-index range of a rectangle
withTiles(r) ==
    [startAbsX |-> r.startX, startAbsY |-> r.startY, width |-> r.width, height |-> r.height,
     minTileX |-> GoDiv(r.startX, TileSize),
     minTileY |-> GoDiv(r.startY, TileSize),
     maxTileX |-> GoDiv(r.startX + r.width - 1, TileSize),
     maxTileY |-> GoDiv(r.startY + r.height - 1, TileSize)]

(***************************************************************************)
(* Images, PNG files and the tile cache                                    *)
(***************************************************************************)
\* values that stand for "no image", "no error" and "no request"
NoImg == <<>>
NoErr == <<>>
NoUrl == <<>>

Transparent == <<0, 0, 0, 0>>
White == <<255, 255, 255, 255>>
Black == <<0, 0, 0, 255>>

\* the colours tiles are drawn from: fully opaque or fully transparent
Palette == {Transparent, White, Black}

\* png.Encode: the file holds the image
pngEncode(img) == [kind |-> "png", img |-> img]

\* png.Decode: a complete PNG file decodes to its image, anything else is an error
pngDecode(file) ==
    IF file.kind = "png" THEN [img |-> file.img, err |-> NoErr]
    ELSE [img |-> NoImg, err |-> <<"png: invalid format">>]

WriteFile(fs, path, file) ==
    [p \in (DOMAIN fs) \cup {path} |-> IF p = path THEN file ELSE fs[p]]

\* lines 123-128: the version with its "v" prefix, and the cache path
vStrOf(version) == IF HasPrefix(version, "v") THEN version ELSE <<"v">> \o version

cachePathOf(version, zoom, x, y) == <<vStrOf(version), zoom, x, y>>

\* lines 129-138: the cached file is there and decodes
CacheHit(fs, path) == path \in DOMAIN fs /\ pngDecode(fs[path]).err = NoErr

\* lines 156-162: the best-effort write of the fetched image
persist(fs, path, img, write) ==
    IF write = "ok" THEN WriteFile(fs, path, pngEncode(img))
    ELSE IF write = "encode failed" THEN WriteFile(fs, path, [kind |-> "truncated"])
    ELSE fs

\* a mutant of downloadRawTile: the cache is never consulted
downloadRawTileNoCache(version, fs, zoom, x, y, net) ==
    LET path == cachePathOf(version, zoom, x, y)
        url == <<"tiles", vStrOf(version), zoom, x, y>>
    IN  IF net.resp # "ok"
        THEN [img |-> NoImg, err |-> <<net.resp>>, fs |-> fs, url |-> url, path |-> path]
        ELSE [img |-> net.body, err |-> NoErr, fs |-> persist(fs, path, net.body, net.write),
              url |-> url, path |-> path]

\* net is what the network and the file system answer if they are asked:
\* resp is "ok" or the failure of the GET, body the image served, write the
\* outcome of the cache write.  url is NoUrl when no request was made.
downloadRawTile(version, fs, zoom, x, y, net) ==
    LET path == cachePathOf(version, zoom, x, y)
        url == <<"tiles", vStrOf(version), zoom, x, y>>
    IN  IF CacheHit(fs, path)
        THEN [img |-> pngDecode(fs[path]).img, err |-> NoErr, fs |-> fs, url |-> NoUrl,
              path |-> path]
        ELSE IF net.resp # "ok"
        THEN [img |-> NoImg, err |-> <<net.resp>>, fs |-> fs, url |-> url, path |-> path]
        ELSE [img |-> net.body, err |-> NoErr, fs |-> persist(fs, path, net.body, net.write),
              url |-> url, path |-> path]

\* draw.Over of premultiplied 8-bit colours (image/draw, RGBA over RGBA):
\* dst = (dst*a/m + src16) >> 8 with m = 65535, a = (m - srcA16) * 257, where
\* dst*a/m = dst * 257 * (255 - srcA) / 255 since srcA16 = srcA * 257
Over(s, d) ==
    [c \in 1..4 |-> (((d[c] * 257 * (255 - s[4])) \div 255) + s[c] * 257) \div 256]

\* lines 182-186: the base copied, the diff drawn over it, within the base's bounds
merge(baseImg, diffImg) ==
    [p \in DOMAIN baseImg |->
        IF p \in DOMAIN diffImg THEN Over(diffImg[p], baseImg[p]) ELSE baseImg[p]]

\* the record of one call of downloadRawTile
RawCall(version, fs, r) ==
    [version |-> version, path |-> r.path, cached |-> CacheHit(fs, r.path),
     img |-> r.img, err |-> r.err, url |-> r.url, stored |-> CacheHit(r.fs, r.path)]

\* a mutant of downloadMergedTile: a missing diff layer fails the tile
downloadMergedTileStrict(version, fs, zoom, x, y, net1, net2) ==
    IF ~Contains(version, ".")
    THEN LET r == downloadRawTile(version, fs, zoom, x, y, net1)
         IN  [img |-> r.img, err |-> r.err, fs |-> r.fs, raw |-> <<RawCall(version, fs, r)>>]
    ELSE LET baseVersion == Split(version, ".")[1]
             b == downloadRawTile(baseVersion, fs, zoom, x, y, net1)
             d == downloadRawTile(version, b.fs, zoom, x, y, net2)
             raw == <<RawCall(baseVersion, fs, b), RawCall(version, b.fs, d)>>
         IN  IF b.err # NoErr \/ d.err # NoErr
             THEN [img |-> NoImg, err |-> <<"failed to download both base and diff for", version>>,
                   fs |-> d.fs, raw |-> raw]
             ELSE [img |-> merge(b.img, d.img), err |-> NoErr, fs |-> d.fs, raw |-> raw]

downloadMergedTile(version, fs, zoom, x, y, net1, net2) ==
    IF ~Contains(version, ".")
    THEN LET r == downloadRawTile(version, fs, zoom, x, y, net1)
         IN  [img |-> r.img, err |-> r.err, fs |-> r.fs, raw |-> <<RawCall(version, fs, r)>>]
    ELSE LET baseVersion == Split(version, ".")[1]
             b == downloadRawTile(baseVersion, fs, zoom, x, y, net1)
             d == downloadRawTile(version, b.fs, zoom, x, y, net2)
             raw == <<RawCall(baseVersion, fs, b), RawCall(version, b.fs, d)>>
         IN  IF b.err # NoErr /\ d.err # NoErr
             THEN [img |-> NoImg, err |-> <<"failed to download both base and diff for", version>>,
                   fs |-> d.fs, raw |-> raw]
             ELSE IF b.err = NoErr /\ d.err # NoErr
             THEN [img |-> b.img, err |-> NoErr, fs |-> d.fs, raw |-> raw]
             ELSE IF b.err # NoErr /\ d.err = NoErr
             THEN [img |-> d.img, err |-> NoErr, fs |-> d.fs, raw |-> raw]
             ELSE [img |-> merge(b.img, d.img), err |-> NoErr, fs |-> d.fs, raw |-> raw]

\* what the network and the file system may answer to one fetch of an image
\* over the pixels pix
NoAnswer == [resp |-> Nil, body |-> NoImg, write |-> Nil]

NetAnswers(pix, env) ==
    [resp : env.resps, body : {NoImg}, write : {Nil}]
    \cup [resp : {"ok"}, body : [pix -> env.colours], write : env.writes]

\* every failure of the GET and every outcome of the cache write
AnyEnv ==
    [resps |-> {"transport error", "HTTP 404", "PNG decode error"},
     colours |-> Palette,
     writes |-> {"ok", "create failed", "encode failed"}]

\* the answers a fetch can meet: none is asked for when the cache holds the tile
AnswersFor(fs, version, zoom, x, y, pix, env) ==
    IF CacheHit(fs, cachePathOf(version, zoom, x, y)) THEN {NoAnswer}
    ELSE NetAnswers(pix, env)

(***************************************************************************)
(* Canvas compositing, change accumulation and rendering                   *)
(***************************************************************************)
\* the pixels of a width x height canvas
Pixels(w, h) == (0..(w - 1)) \X (0..(h - 1))

\* the tile-local coordinates of tile (ttx, tty) that lie inside the region:
\* images are kept for these pixels only, the rest of a tile is never read
LocalPix(r, ttx, tty) ==
    {<<ax - ttx * TileSize, ay - tty * TileSize>> :
        ax \in Max2(r.startAbsX, ttx * TileSize)..
               (Min2(r.startAbsX + r.width, (ttx + 1) * TileSize) - 1),
        ay \in Max2(r.startAbsY, tty * TileSize)..
               (Min2(r.startAbsY + r.height, (tty + 1) * TileSize) - 1)}

\* lines 356-366: the part of the tile inside the region is copied (draw.Src)
drawTile(canvas, img, r, ttx, tty) ==
    LET iMinX == Max2(ttx * TileSize, r.startAbsX)
        iMinY == Max2(tty * TileSize, r.startAbsY)
        iMaxX == Min2((ttx + 1) * TileSize, r.startAbsX + r.width)
        iMaxY == Min2((tty + 1) * TileSize, r.startAbsY + r.height)
        empty == iMinX >= iMaxX \/ iMinY >= iMaxY
        drawX == iMinX - r.startAbsX
        drawY == iMinY - r.startAbsY
        srcX == iMinX - ttx * TileSize
        srcY == iMinY - tty * TileSize
        src(p) == <<srcX + p[1] - drawX, srcY + p[2] - drawY>>
        inRect(p) == /\ drawX <= p[1] /\ p[1] < drawX + (iMaxX - iMinX)
                     /\ drawY <= p[2] /\ p[2] < drawY + (iMaxY - iMinY)
    IN  IF empty THEN canvas
        ELSE [p \in DOMAIN canvas |->
                 IF inRect(p) /\ src(p) \in DOMAIN img THEN img[src(p)] ELSE canvas[p]]

\* color.RGBA.RGBA(): the 16-bit channels of an 8-bit colour
RGBA16(c) == [k \in 1..4 |-> c[k] * 257]

\* a mutant of colorsEqual: the alpha channel is not compared
colorsEqualNoAlpha(c1, c2) ==
    /\ RGBA16(c1)[1] = RGBA16(c2)[1]
    /\ RGBA16(c1)[2] = RGBA16(c2)[2]
    /\ RGBA16(c1)[3] = RGBA16(c2)[3]

colorsEqual(c1, c2) ==
    /\ RGBA16(c1)[1] = RGBA16(c2)[1]
    /\ RGBA16(c1)[2] = RGBA16(c2)[2]
    /\ RGBA16(c1)[3] = RGBA16(c2)[3]
    /\ RGBA16(c1)[4] = RGBA16(c2)[4]

\* a mutant of accumulate: a changed pixel counts twice
accumulateTwice(ch, cur, prev) ==
    [p \in DOMAIN ch |-> IF ~colorsEqual(cur[p], prev[p]) THEN ch[p] + 2 ELSE ch[p]]

\* lines 374-380.  (The counters are uint32; 2^32 versions are out of reach.)
accumulate(ch, cur, prev) ==
    [p \in DOMAIN ch |-> IF ~colorsEqual(cur[p], prev[p]) THEN ch[p] + 1 ELSE ch[p]]

\* a mutant of skipVersion: an invalid version is not skipped
skipVersionNever(valid) == FALSE

\* line 370
skipVersion(valid) == ~valid

\* math.Round of the non-negative rational n/d: half away from zero
RoundDiv(n, d) == (2 * n + d) \div (2 * d)

\* a mutant of getHeatColor: green does not ramp down from 255 in the last segment
getHeatColorNoRamp(val, max) ==
    IF val = 0 THEN <<0, 0, 0, 255>>
    ELSE IF 4 * val < max THEN <<0, 0, RoundDiv(4 * val * 255, max), 255>>
    ELSE IF 2 * val < max
    THEN <<0, RoundDiv((4 * val - max) * 255, max),
           RoundDiv((2 * max - 4 * val) * 255, max), 255>>
    ELSE IF 4 * val < 3 * max
    THEN <<RoundDiv((4 * val - 2 * max) * 255, max), 255, 0, 255>>
    ELSE <<255, RoundDiv((4 * val - 3 * max) * 255, max), 0, 255>>

\* lines 414-431, with ratio = val/max kept as an exact fraction: ratio/0.25*255
\* is 4*val*255/max, (ratio-0.25)/0.25*255 is (4*val-max)*255/max and so on.
\* float64 agrees with the exact value for max < 24.
getHeatColor(val, max) ==
    IF val = 0 THEN <<0, 0, 0, 255>>
    ELSE IF 4 * val < max THEN <<0, 0, RoundDiv(4 * val * 255, max), 255>>
    ELSE IF 2 * val < max
    THEN <<0, RoundDiv((4 * val - max) * 255, max),
           RoundDiv((2 * max - 4 * val) * 255, max), 255>>
    ELSE IF 4 * val < 3 * max
    THEN <<RoundDiv((4 * val - 2 * max) * 255, max), 255, 0, 255>>
    ELSE <<255, RoundDiv((4 * max - 4 * val) * 255, max), 0, 255>>

\* lines 385-392
maxChangesOf(ch) ==
    IF DOMAIN ch = {} THEN 0
    ELSE CHOOSE m \in {ch[p] : p \in DOMAIN ch} : \A p \in DOMAIN ch : ch[p] <= m

\* lines 393-398
renderHeatmap(ch) == [p \in DOMAIN ch |-> getHeatColor(ch[p], maxChangesOf(ch))]

(***************************************************************************)
(* main                                                                    *)
(***************************************************************************)
NoRegionFlag(c) == c.Fullsize = <<>> /\ c.TileRange = <<>> /\ c.SingleTile = <<>>

\* lines 206-260: the Config that the prompts produce; choice is "1".."4"
interactiveMode(autoStr, choice, val) ==
    [Zoom |-> DefaultZoom,
     Fullsize |-> IF choice \in {"1", "2"} THEN val ELSE <<>>,
     TileRange |-> IF choice = "3" THEN val ELSE <<>>,
     SingleTile |-> IF choice = "4" THEN val ELSE <<>>,
     AutoFetch |-> autoStr # "n",
     NFlag |-> 0]

\* lines 263-276: the flags are parsed; with no flag at all the prompts are used,
\* and an invalid choice exits (line 249)
ReadConfig(autoStrs, choices, vals) ==
    /\ pc = "start"
    /\ \/ /\ ~(NoRegionFlag(config) /\ config.NFlag = 0)
          /\ pc' = "versions"
          /\ UNCHANGED config
       \/ /\ NoRegionFlag(config) /\ config.NFlag = 0
          /\ \E autoStr \in autoStrs, choice \in choices, val \in vals :
                IF choice \in {"1", "2", "3", "4"}
                THEN /\ config' = interactiveMode(autoStr, choice, val)
                     /\ pc' = "versions"
                ELSE /\ pc' = "exit"
                     /\ UNCHANGED config
    /\ UNCHANGED <<versions, region, vi, tx, ty, currentCombined, versionValid,
                   prevCombined, successCount, changes, cacheFS, output, built,
                   tileFailed, snap, rawLog, mergedLog, heat>>

\* lines 278-296: the version list from the site, else from the file
LoadVersions(siteLists, fileLists) ==
    /\ pc = "versions"
    /\ \E site \in [ok : {FALSE}, list : {<<>>}] \cup [ok : {TRUE}, list : siteLists],
          file \in [ok : {FALSE}, list : {<<>>}] \cup [ok : {TRUE}, list : fileLists] :
          LET auto == config.AutoFetch /\ site.ok
          IN  /\ config' = [config EXCEPT !.AutoFetch = auto]
              /\ IF auto THEN versions' = site.list /\ pc' = "region"
                 ELSE IF file.ok THEN versions' = file.list /\ pc' = "region"
                 ELSE versions' = <<>> /\ pc' = "fatal versions"
    /\ UNCHANGED <<region, vi, tx, ty, currentCombined, versionValid,
                   prevCombined, successCount, changes, cacheFS, output, built,
                   tileFailed, snap, rawLog, mergedLog, heat>>

\* lines 298-334: the region of the selected encoding, or a fatal parse error
DeriveRegion ==
    /\ pc = "region"
    /\ LET r == selectRect(config)
       IN  IF r.err # Nil
           THEN pc' = "fatal parse" /\ UNCHANGED region
           ELSE pc' = "alloc" /\ region' = withTiles(r)
    /\ UNCHANGED <<config, versions, vi, tx, ty, currentCombined, versionValid,
                   prevCombined, successCount, changes, cacheFS, output, built,
                   tileFailed, snap, rawLog, mergedLog, heat>>

\* lines 336-344; regions of more than MaxPixels pixels are not followed further
Allocate ==
    /\ pc = "alloc"
    /\ region.width * region.height <= MaxPixels
    /\ changes' = [p \in Pixels(region.width, region.height) |-> 0]
    /\ prevCombined' = <<>>
    /\ successCount' = 0
    /\ vi' = 1
    /\ pc' = "version"
    /\ UNCHANGED <<config, versions, region, tx, ty, currentCombined, versionValid,
                   cacheFS, output, built, tileFailed, snap, rawLog, mergedLog, heat>>

\* lines 346-350: the next version begins with an empty canvas
BeginVersion ==
    /\ pc = "version"
    /\ vi <= Len(versions)
    /\ currentCombined' = [p \in Pixels(region.width, region.height) |-> Transparent]
    /\ versionValid' = TRUE
    /\ tx' = region.minTileX
    /\ ty' = region.minTileY
    /\ pc' = IF region.minTileX <= region.maxTileX /\ region.minTileY <= region.maxTileY
             THEN "tile" ELSE "after"
    /\ tileFailed' = FALSE
    /\ snap' = [changes |-> changes, prev |-> prevCombined, successCount |-> successCount,
                vi |-> vi]
    /\ UNCHANGED <<config, versions, region, vi, prevCombined, successCount, changes,
                   cacheFS, output, built, rawLog, mergedLog, heat>>

\* lines 351-368: one tile is resolved and drawn; a failure ends the version's loops.
\* Every fetch can meet every answer of AnyEnv.
ResolveTile ==
    /\ pc = "tile"
    /\ LET v == versions[vi]
           pix == LocalPix(region, tx, ty)
       IN  \E net1 \in AnswersFor(cacheFS, Split(v, ".")[1], config.Zoom, tx, ty, pix, AnyEnv) :
           \E net2 \in IF Contains(v, ".")
                       THEN AnswersFor(cacheFS, v, config.Zoom, tx, ty, pix, AnyEnv)
                       ELSE {NoAnswer} :
              LET m == downloadMergedTile(v, cacheFS, config.Zoom, tx, ty, net1, net2)
              IN  /\ cacheFS' = m.fs
                  /\ IF m.err # NoErr
                     THEN /\ versionValid' = FALSE
                          /\ tileFailed' = TRUE
                          /\ pc' = "after"
                          /\ UNCHANGED <<currentCombined, tx, ty>>
                     ELSE /\ currentCombined' = drawTile(currentCombined, m.img, region, tx, ty)
                          /\ UNCHANGED <<versionValid, tileFailed>>
                          /\ IF ty < region.maxTileY
                             THEN ty' = ty + 1 /\ UNCHANGED <<tx, pc>>
                             ELSE IF tx < region.maxTileX
                             THEN tx' = tx + 1 /\ ty' = region.minTileY /\ UNCHANGED pc
                             ELSE pc' = "after" /\ UNCHANGED <<tx, ty>>
    /\ UNCHANGED <<config, versions, region, vi, prevCombined, successCount, changes,
                   output, built, snap, rawLog, mergedLog, heat>>

\* line 370: an invalid version is skipped
SkipVersion ==
    /\ pc = "after"
    /\ skipVersion(versionValid)
    /\ vi' = vi + 1
    /\ pc' = "version"
    /\ UNCHANGED <<config, versions, region, tx, ty, currentCombined, versionValid,
                   prevCombined, successCount, changes, cacheFS, output, built,
                   tileFailed, snap, rawLog, mergedLog, heat>>

\* lines 371-382: the canvas is compared with the previous one and replaces it
Accumulate ==
    /\ pc = "after"
    /\ ~skipVersion(versionValid)
    /\ successCount' = successCount + 1
    /\ changes' = IF prevCombined # <<>>
                  THEN accumulate(changes, currentCombined, prevCombined[1])
                  ELSE changes
    /\ prevCombined' = <<currentCombined>>
    /\ built' = Append(built, currentCombined)
    /\ vi' = vi + 1
    /\ pc' = "version"
    /\ UNCHANGED <<config, versions, region, tx, ty, currentCombined, versionValid,
                   cacheFS, output, tileFailed, snap, rawLog, mergedLog, heat>>

\* lines 384-405: the heatmap is rendered and written, unless the file cannot be
\* created; png.Encode rejects an image without pixels, which leaves the file empty
Finish ==
    /\ pc = "version"
    /\ vi > Len(versions)
    /\ \E created \in BOOLEAN :
          IF created
          THEN /\ pc' = "done"
               /\ output' = IF DOMAIN changes = {} THEN <<[kind |-> "truncated"]>>
                            ELSE <<pngEncode(renderHeatmap(changes))>>
          ELSE /\ pc' = "fatal output"
               /\ UNCHANGED output
    /\ UNCHANGED <<config, versions, region, vi, tx, ty, currentCombined, versionValid,
                   prevCombined, successCount, changes, cacheFS, built, tileFailed,
                   snap, rawLog, mergedLog, heat>>

(***************************************************************************)
(* The tile fetcher and the version resolver on their own: any state of    *)
(* the cache directory, then any calls.  rawLog keeps the last two calls   *)
(* of downloadRawTile, mergedLog the last call of downloadMergedTile when  *)
(* its fetches are the newest entries of rawLog.                           *)
(***************************************************************************)
TileVersions == {<<"1">>, <<"v", "1">>, <<"v", "1", ".", "2", ".", "3">>}

TilePix == {<<0, 0>>}

TilePaths == {cachePathOf(v, DefaultZoom, 0, 0) : v \in TileVersions}

TileFiles == {[kind |-> "truncated"]} \cup {pngEncode(i) : i \in [TilePix -> Palette]}

TileCaches == UNION {[ps -> TileFiles] : ps \in SUBSET TilePaths}

Last2(log) == IF Len(log) > 2 THEN SubSeq(log, Len(log) - 1, Len(log)) ELSE log

Idle ==
    /\ pc = "tile calls"
    /\ config = Nil /\ versions = <<>> /\ region = Nil /\ vi = 0 /\ tx = 0 /\ ty = 0
    /\ currentCombined = <<>> /\ versionValid = TRUE /\ prevCombined = <<>>
    /\ successCount = 0 /\ changes = <<>> /\ output = <<>> /\ built = <<>>
    /\ tileFailed = FALSE /\ snap = Nil /\ heat = Nil

TileInit ==
    /\ Idle
    /\ cacheFS \in TileCaches
    /\ rawLog = <<>>
    /\ mergedLog = <<>>

CallRaw ==
    /\ pc = "tile calls"
    /\ \E version \in TileVersions :
       \E net \in AnswersFor(cacheFS, version, DefaultZoom, 0, 0, TilePix, AnyEnv) :
          LET r == downloadRawTile(version, cacheFS, DefaultZoom, 0, 0, net)
          IN  /\ cacheFS' = r.fs
              /\ rawLog' = Last2(Append(rawLog, RawCall(version, cacheFS, r)))
              /\ mergedLog' = <<>>
    /\ UNCHANGED <<pc, config, versions, region, vi, tx, ty, currentCombined, versionValid,
                   prevCombined, successCount, changes, output, built, tileFailed, snap,
                   heat>>

CallMerged ==
    /\ pc = "tile calls"
    /\ \E version \in TileVersions :
       \E net1 \in AnswersFor(cacheFS, Split(version, ".")[1], DefaultZoom, 0, 0, TilePix, AnyEnv) :
       \E net2 \in IF Contains(version, ".")
                   THEN AnswersFor(cacheFS, version, DefaultZoom, 0, 0, TilePix, AnyEnv)
                   ELSE {NoAnswer} :
          LET m == downloadMergedTile(version, cacheFS, DefaultZoom, 0, 0, net1, net2)
          IN  /\ cacheFS' = m.fs
              /\ rawLog' = Last2(rawLog \o m.raw)
              /\ mergedLog' = <<[version |-> version, img |-> m.img, err |-> m.err,
                                n |-> Len(m.raw)]>>
    /\ UNCHANGED <<pc, config, versions, region, vi, tx, ty, currentCombined, versionValid,
                   prevCombined, successCount, changes, output, built, tileFailed, snap,
                   heat>>

TileNext == CallRaw \/ CallMerged

SpecTile == TileInit /\ [][TileNext]_vars

(***************************************************************************)
(* Region strings: well-formed ones over small coordinates, and the same   *)
(* strings with one numeric field spoiled, one separator replaced, or a    *)
(* field dropped or added.                                                 *)
(***************************************************************************)
RECURSIVE Itoa(_)
Itoa(n) == IF n < 10 THEN <<Digits[n + 1]>> ELSE Itoa(n \div 10) \o <<Digits[(n % 10) + 1]>>

\* fields[1] seps[1] fields[2] ... seps[n-1] fields[n]
RECURSIVE Join(_, _)
Join(fields, seps) ==
    IF Len(fields) = 0 THEN <<>>
    ELSE IF Len(fields) = 1 THEN fields[1]
    ELSE fields[1] \o <<seps[1]>> \o Join(Tail(fields), Tail(seps))

Tokens(nums) == [i \in 1..Len(nums) |-> Itoa(nums[i])]

Dashes(n) == [i \in 1..n |-> "-"]

Dash(nums) == Join(Tokens(nums), Dashes(Len(nums) - 1))

TileIdx == 0..MaxTile

PixVals == {0, TileSize - 1}

Points == {<<a, b, c, d>> : a \in TileIdx, b \in TileIdx, c \in PixVals, d \in PixVals}

Fields6 == {pt \o <<w, h>> : pt \in Points, w \in 0..MaxSize, h \in 0..MaxSize}

Fields8 == {pt \o q : pt \in Points, q \in Points}

BadTokens == {<<"x">>, <<>>, <<"1", "x">>}

\* the strings made from the numbers nums with the separators seps, and their
\* spoiled variants (other is the separator put in place of one of seps)
Variants(nums, seps, other) ==
    LET toks == Tokens(nums)
        n == Len(nums)
    IN  {Join(toks, seps)}
        \cup {Join([toks EXCEPT ![i] = bad], seps) : i \in 1..n, bad \in BadTokens}
        \cup {Join(toks, [seps EXCEPT ![i] = other]) : i \in 1..(n - 1)}
        \cup {Join(SubSeq(toks, 1, n - 1), SubSeq(seps, 1, n - 2)),
              Join(Append(toks, <<"0">>), Append(seps, "-"))}

FullsizeStrings == UNION {Variants(f, Dashes(Len(f) - 1), "_") : f \in Fields6 \cup Fields8}

TilePairs == {<<a, b, c, d>> : a \in TileIdx, b \in TileIdx, c \in TileIdx, d \in TileIdx}

TileRangeStrings == UNION {Variants(f, <<"-", "_", "-">>, "-") : f \in TilePairs}
                    \cup {Join(Tokens(f), <<"_", "_", "_">>) : f \in TilePairs}

SingleTileStrings == UNION {Variants(<<a, b>>, <<"-">>, "_") : a \in TileIdx, b \in TileIdx}

Flags(fs, tr, st, n, auto) ==
    [Zoom |-> DefaultZoom, Fullsize |-> fs, TileRange |-> tr, SingleTile |-> st,
     AutoFetch |-> auto, NFlag |-> n]

\* one encoding given, none given (with and without another flag), several given
RegionConfigs ==
    {Flags(fs, <<>>, <<>>, 1, TRUE) : fs \in FullsizeStrings}
    \cup {Flags(<<>>, tr, <<>>, 1, TRUE) : tr \in TileRangeStrings}
    \cup {Flags(<<>>, <<>>, st, 1, TRUE) : st \in SingleTileStrings}
    \cup {Flags(<<>>, <<>>, <<>>, n, TRUE) : n \in {0, 1}}
    \cup {Flags(fs, tr, st, 3, TRUE) :
            fs \in {<<>>, Dash(<<0, 0, 0, 0, 1, 1>>), Dash(<<0, 0, 0, 0, 1>>)},
            tr \in {<<>>, Join(Tokens(<<0, 0, 1, 1>>), <<"-", "_", "-">>), Dash(<<0, 0, 1, 1>>)},
            st \in {<<>>, Dash(<<1, 1>>), Dash(<<1>>)}}

\* what is typed at the prompts
PromptChoices == {"1", "2", "3", "4", "5"}

PromptVals ==
    {<<>>, Dash(<<0, 0, 0, 0, 1, 1>>), Dash(<<1, 0, 0, 0, 0, 0, 0, 0>>),
     Join(Tokens(<<1, 1, 0, 0>>), <<"-", "_", "-">>), Dash(<<1, 0>>), <<"x", "-", "0">>}

Blank ==
    /\ versions = <<>> /\ region = Nil /\ vi = 0 /\ tx = 0 /\ ty = 0
    /\ currentCombined = <<>> /\ versionValid = TRUE /\ prevCombined = <<>>
    /\ successCount = 0 /\ changes = <<>> /\ output = <<>> /\ built = <<>>
    /\ tileFailed = FALSE /\ snap = Nil
    /\ cacheFS = <<>> /\ rawLog = <<>> /\ mergedLog = <<>>

(***************************************************************************)
(* The coordinate translator within main: every region string above, up to *)
(* the point where the counters would be allocated.                        *)
(***************************************************************************)
RegionInit ==
    /\ pc = "start"
    /\ config \in RegionConfigs
    /\ heat = Nil
    /\ Blank

RegionNext ==
    \/ ReadConfig({"", "n"}, PromptChoices, PromptVals)
    \/ LoadVersions({<<<<"1">>>>}, {<<<<"2">>>>})
    \/ DeriveRegion

SpecRegion == RegionInit /\ [][RegionNext]_vars

(***************************************************************************)
(* The whole run over small regions: one pixel, two pixels on two tiles,   *)
(* no pixel at all; with two encodings given, with none, with a malformed  *)
(* one.  Every fetch can meet every answer of AnyEnv.                      *)
(***************************************************************************)
\* a region of two pixels, the last of tile 0,0 and the first of tile 1,0
TwoTiles == Dash(<<0, 0, TileSize - 1, 0, 2, 1>>)

MainConfigs ==
    {Flags(TwoTiles, <<>>, <<>>, 1, TRUE),
     Flags(Dash(<<0, 0, 0, 0, 1, 1>>), <<>>, Dash(<<0, 0>>), 2, TRUE),
     Flags(<<>>, <<>>, Dash(<<0, 0>>), 2, FALSE),
     Flags(Dash(<<1, 0, 0, 0, 0, 1>>), <<>>, <<>>, 1, TRUE),
     Flags(<<>>, <<>>, <<>>, 1, TRUE),
     Flags(<<>>, <<>>, <<>>, 0, TRUE),
     Flags(<<>>, <<"x", "-", "0", "_", "0", "-", "0">>, <<>>, 1, TRUE)}

\* version strings without and with a diff layer
MainVersions == {<<"1">>, <<"1", ".", "5">>}

\* lines 166-181: the layers downloadMergedTile fetches for a version
Layers(version) == IF Contains(version, ".") THEN 2 ELSE 1

\* the version lists whose versions have at most n layers in all
RECURSIVE ListsUpTo(_)
ListsUpTo(n) ==
    {<<>>} \cup UNION {{<<v>> \o rest : rest \in ListsUpTo(n - Layers(v))} :
                          v \in {u \in MainVersions : Layers(u) <= n}}

MainLists == ListsUpTo(MaxLayers) \ {<<>>}

Init ==
    /\ pc = "start"
    /\ config \in MainConfigs
    /\ heat = Nil
    /\ Blank

Next ==
    \/ ReadConfig({""}, {"1", "5"}, {Dash(<<0, 0, 0, 0, 1, 1>>)})
    \/ LoadVersions(MainLists, {<<>>})
    \/ DeriveRegion
    \/ Allocate
    \/ BeginVersion
    \/ ResolveTile
    \/ SkipVersion
    \/ Accumulate
    \/ Finish

Spec == Init /\ [][Next]_vars

(***************************************************************************)
(* getHeatColor on its own                                                 *)
(***************************************************************************)
HeatInit ==
    /\ pc = "heat"
    /\ config = Nil
    /\ Blank
    /\ \E max \in 0..MaxCount, val \in 0..MaxCount :
          /\ val <= max
          /\ heat = [val |-> val, max |-> max, color |-> <<>>]

ApplyHeat ==
    /\ pc = "heat"
    /\ heat.color = <<>>
    /\ heat' = [heat EXCEPT !.color = getHeatColor(heat.val, heat.max)]
    /\ UNCHANGED <<pc, config, versions, region, vi, tx, ty, currentCombined, versionValid,
                   prevCombined, successCount, changes, cacheFS, output, built, tileFailed,
                   snap, rawLog, mergedLog>>

SpecHeat == HeatInit /\ [][ApplyHeat]_vars

(***************************************************************************)
(* C3, C4: properties of the tile fetcher and the version resolver         *)
(***************************************************************************)
SamePathPairs ==
    {ij \in (DOMAIN rawLog) \X (DOMAIN rawLog) :
        ij[1] < ij[2] /\ rawLog[ij[1]].path = rawLog[ij[2]].path}

\* C3 as stated: whenever downloadRawTile is called twice for the same key, the
\* second call performs no network access.
C3_SecondCallNeverFetches ==
    \A ij \in SamePathPairs :
        rawLog[ij[1]].version = rawLog[ij[2]].version => rawLog[ij[2]].url = NoUrl

\* C3 amended: a call that finds a decodable cached file at the key's path returns
\* an image without any network access; and when a decodable file for the key is
\* in the cache after the first of two calls (it was a hit, or it fetched the tile
\* and the cache write succeeded), the second call makes no request and returns
\* the same image.
C3_CacheHitAvoidsNetwork ==
    /\ \A j \in DOMAIN rawLog :
          rawLog[j].cached => rawLog[j].url = NoUrl /\ rawLog[j].err = NoErr
                              /\ rawLog[j].img \in [TilePix -> Palette]
    /\ \A ij \in SamePathPairs :
          rawLog[ij[1]].stored =>
              /\ rawLog[ij[2]].url = NoUrl
              /\ rawLog[ij[2]].err = NoErr
              /\ rawLog[ij[2]].img = rawLog[ij[1]].img

\* C3 witness: a first call went to the network and stored the tile, the second
\* call for the same key made no request.
C3_Witness ==
    \E ij \in SamePathPairs :
        /\ rawLog[ij[1]].url # NoUrl /\ rawLog[ij[1]].stored
        /\ rawLog[ij[2]].url = NoUrl /\ rawLog[ij[2]].img = rawLog[ij[1]].img

\* the text before the first "." of a version that has one
BeforeFirstDot(v) ==
    LET k == CHOOSE i \in 1..Len(v) : v[i] = "." /\ \A j \in 1..(i - 1) : v[j] # "."
    IN  SubSeq(v, 1, k - 1)

\* the fetches of the last call of downloadMergedTile
MergedRaw == SubSeq(rawLog, Len(rawLog) - mergedLog[1].n + 1, Len(rawLog))

\* C4: for a version with a "." the base layer (the text before the first ".") and
\* the diff layer (the whole identifier) are both fetched; both fail -> an error
\* naming the version; only the diff fails -> the base image; only the base fails
\* -> the diff image.  Without a "." the result is that of the single fetch.
C4_MissingLayerPolicy ==
    Len(mergedLog) = 1 =>
        LET m == mergedLog[1]
            raw == MergedRaw
        IN  IF Contains(m.version, ".")
            THEN /\ m.n = 2
                 /\ raw[1].version = BeforeFirstDot(m.version)
                 /\ raw[2].version = m.version
                 /\ (raw[1].err # NoErr /\ raw[2].err # NoErr) =>
                        (m.err # NoErr /\ m.err[2] = m.version /\ m.img = NoImg)
                 /\ (raw[1].err = NoErr /\ raw[2].err # NoErr) =>
                        (m.err = NoErr /\ m.img = raw[1].img)
                 /\ (raw[1].err # NoErr /\ raw[2].err = NoErr) =>
                        (m.err = NoErr /\ m.img = raw[2].img)
            ELSE /\ m.n = 1
                 /\ raw[1].version = m.version
                 /\ m.err = raw[1].err
                 /\ m.img = raw[1].img

\* C4 witness: the diff layer of a dotted version failed, the base layer did not,
\* and the base image came back.
C4_Witness ==
    /\ Len(mergedLog) = 1
    /\ Contains(mergedLog[1].version, ".")
    /\ MergedRaw[1].err = NoErr /\ MergedRaw[2].err # NoErr
    /\ mergedLog[1].err = NoErr /\ mergedLog[1].img = MergedRaw[1].img

(***************************************************************************)
(* C1, C2, C5: properties of the version loop                              *)
(***************************************************************************)
Counting == pc \in {"version", "tile", "after", "done"}

\* C1: when a tile of a version fails to resolve the version is invalid, and after
\* its iteration the counters, the previous canvas and the success count are what
\* they were when the iteration began; the loop goes on with the next version.
C1_AllOrNothing ==
    (Counting /\ tileFailed) =>
        /\ ~versionValid
        /\ changes = snap.changes
        /\ prevCombined = snap.prev
        /\ successCount = snap.successCount
        /\ pc \in {"after", "version", "done"}
        /\ pc = "version" => vi = snap.vi + 1

\* C1 witness: in a two-tile region the second tile of a version failed after a
\* canvas had been built, the iteration is over and another version follows.
C1_Witness ==
    /\ pc = "version" /\ tileFailed
    /\ tx > region.minTileX
    /\ prevCombined # <<>>
    /\ vi <= Len(versions)

\* C2 as stated: every counter is at most (successfully built canvases) - 1, also
\* when no canvas has been built.
C2_BoundedBySuccessesMinusOne ==
    Counting => \A p \in DOMAIN changes : changes[p] <= successCount - 1

\* C2 amended: no step decreases a counter, and every counter is at most
\* (successfully built canvases) - 1 once a canvas has been built, and 0 before.
C2_MonotoneAndBounded ==
    [][/\ Counting' =>
            \A p \in DOMAIN changes' : changes'[p] <= Max2(successCount' - 1, 0)
       /\ (Counting /\ Counting') =>
            \A p \in DOMAIN changes : changes'[p] >= changes[p]]_vars

\* C2 witness: a counter has reached 2 with three canvases built.
C2_Witness ==
    /\ Counting /\ successCount = 3
    /\ \E p \in DOMAIN changes : changes[p] = 2

\* the adjacent pairs of built canvases that differ at pixel p in some channel
DiffPairs(p) ==
    {i \in 1..(Len(built) - 1) : \E c \in 1..4 : built[i][p][c] # built[i + 1][p][c]}

\* premultiplied colours with every channel 0 or 255: any two of them differ in
\* one channel or in several
ChannelColours ==
    {c \in {0, 255} \X {0, 255} \X {0, 255} \X {0, 255} :
        \A k \in 1..3 : c[k] <= c[4]}

\* the comparison of the accumulation looks at every channel: for a pixel that
\* was prev and is cur, the counter goes up by 1 exactly when some channel differs
ComparesEveryChannel ==
    \A prev \in ChannelColours, cur \in ChannelColours :
        accumulate(<<0>>, <<cur>>, <<prev>>)[1]
            = IF \E k \in 1..4 : prev[k] # cur[k] THEN 1 ELSE 0

\* C5: the counter of a pixel is the number of adjacent pairs of successfully built
\* canvases that differ at the pixel in R, G, B or A; the previous canvas is the
\* last one built, and the first one is recorded without a comparison.  When the
\* sequence has been processed, the comparison that was used is seen to count a
\* difference in any single channel.
C5_CountsAdjacentChanges ==
    /\ Counting =>
          /\ successCount = Len(built)
          /\ prevCombined = IF Len(built) = 0 THEN <<>> ELSE <<built[Len(built)]>>
          /\ \A p \in DOMAIN changes : changes[p] = Cardinality(DiffPairs(p))
    /\ pc = "done" => ComparesEveryChannel

\* C5 witness: three canvases with a pixel white, white, black; its counter is 1.
C5_Witness ==
    /\ pc = "done" /\ Len(built) = 3
    /\ \E p \in DOMAIN changes :
          /\ built[1][p] = White /\ built[2][p] = White /\ built[3][p] = Black
          /\ changes[p] = 1

(***************************************************************************)
(* C6 - C9: properties of the coordinate translator                        *)
(***************************************************************************)
IsNumber(tok) == Len(tok) > 0 /\ \A i \in 1..Len(tok) : IsDigit(tok[i])

AllNumbers(parts) == \A i \in 1..Len(parts) : IsNumber(parts[i])

WellFormedFullsize(str) ==
    Len(Split(str, "-")) \in {6, 8} /\ AllNumbers(Split(str, "-"))

WellFormedPoint(str) ==
    Len(Split(str, "-")) = 2 /\ AllNumbers(Split(str, "-"))

WellFormedTileRange(str) ==
    /\ Len(Split(str, "_")) = 2
    /\ WellFormedPoint(Split(str, "_")[1])
    /\ WellFormedPoint(Split(str, "_")[2])

UsesFullsize == config.Fullsize # <<>>
UsesTileRange == config.Fullsize = <<>> /\ config.TileRange # <<>>
UsesSingleTile ==
    config.Fullsize = <<>> /\ config.TileRange = <<>> /\ config.SingleTile # <<>>

\* C6: a region string with a malformed numeric field, a wrong token count or a
\* wrong separator is rejected: no region is derived from it.
C6_MalformedRejected ==
    pc = "alloc" =>
        /\ UsesFullsize => WellFormedFullsize(config.Fullsize)
        /\ UsesTileRange => WellFormedTileRange(config.TileRange)
        /\ UsesSingleTile => WellFormedPoint(config.SingleTile)

SuppliedEncodings ==
    {e \in {"fullsize", "tiles", "tile"} :
        \/ e = "fullsize" /\ config.Fullsize # <<>>
        \/ e = "tiles" /\ config.TileRange # <<>>
        \/ e = "tile" /\ config.SingleTile # <<>>}

\* C7: a run in which no region encoding is supplied, or more than one, ends in a
\* fatal error before any tile is fetched: it never gets past the region selection
\* to the allocation of the counters.
C7_SelectionValidated ==
    pc = "alloc" => Cardinality(SuppliedEncodings) = 1

\* the Fullsize-8 string with its two corners exchanged
SwapCorners(str) ==
    LET parts == Split(str, "-")
    IN  Join(SubSeq(parts, 5, 8) \o SubSeq(parts, 1, 4), Dashes(7))

\* the tile range "A_B" as "B_A"
SwapEnds(str) == Split(str, "_")[2] \o <<"_">> \o Split(str, "_")[1]

AbsCoord(parts, t, q) == Atoi(parts[t]).val * TileSize + Atoi(parts[q]).val

\* C8: a Fullsize-8 string and the string with its corners exchanged give the same
\* region and tile range, whose origin is the smaller absolute X and Y; a tile
\* range "A_B" and "B_A" give the same normalized range.
C8_CornerOrderInvariant ==
    pc = "alloc" =>
        /\ (UsesFullsize /\ Len(Split(config.Fullsize, "-")) = 8) =>
              LET parts == Split(config.Fullsize, "-")
                  swapped == [config EXCEPT !.Fullsize = SwapCorners(config.Fullsize)]
              IN  /\ selectRect(swapped).err = Nil
                  /\ region = withTiles(selectRect(swapped))
                  /\ region.startAbsX = Min2(AbsCoord(parts, 1, 3), AbsCoord(parts, 5, 7))
                  /\ region.startAbsY = Min2(AbsCoord(parts, 2, 4), AbsCoord(parts, 6, 8))
        /\ UsesTileRange =>
              LET swapped == [config EXCEPT !.TileRange = SwapEnds(config.TileRange)]
              IN  /\ parseTileRange(swapped.TileRange) = parseTileRange(config.TileRange)
                  /\ region = withTiles(selectRect(swapped))

\* C8 witness: a Fullsize-8 string whose first corner lies right of and below the
\* second one was parsed.
C8_Witness ==
    /\ pc = "alloc" /\ UsesFullsize /\ Len(Split(config.Fullsize, "-")) = 8
    /\ LET parts == Split(config.Fullsize, "-")
       IN  /\ AbsCoord(parts, 1, 3) > AbsCoord(parts, 5, 7)
           /\ AbsCoord(parts, 2, 4) > AbsCoord(parts, 6, 8)
           /\ region.startAbsX = AbsCoord(parts, 5, 7)
           /\ region.startAbsY = AbsCoord(parts, 6, 8)

\* C9: every region the translator accepts has width > 0 and height > 0 and a
\* non-empty tile range.
C9_RegionNonEmpty ==
    pc = "alloc" =>
        /\ region.width > 0 /\ region.height > 0
        /\ region.minTileX <= region.maxTileX
        /\ region.minTileY <= region.maxTileY

(***************************************************************************)
(* C10: the gradient at its stops                                          *)
(***************************************************************************)
\* C10: count 0 renders opaque black whatever the maximum; count/max = 1/2 renders
\* (0,255,0,255), 3/4 renders (255,255,0,255), 1 renders (255,0,0,255); alpha is 255.
C10_GradientStops ==
    (pc = "heat" /\ heat.color # <<>>) =>
        /\ heat.color[4] = 255
        /\ heat.val = 0 => heat.color = <<0, 0, 0, 255>>
        /\ (heat.val > 0 /\ 2 * heat.val = heat.max) => heat.color = <<0, 255, 0, 255>>
        /\ (heat.val > 0 /\ 4 * heat.val = 3 * heat.max) => heat.color = <<255, 255, 0, 255>>
        /\ (heat.val > 0 /\ heat.val = heat.max) => heat.color = <<255, 0, 0, 255>>

\* C10 witness: count 3 of maximum 4 was rendered yellow.
C10_Witness ==
    /\ pc = "heat"
    /\ heat.val = 3 /\ heat.max = 4
    /\ heat.color = <<255, 255, 0, 255>>

====
